---- MODULE Spec2Model ----
(***************************************************************************)
(* A model of acedia.py: the curses habit tracker (class App, the          *)
(* interactive loop), the four JSON documents it persists, and the         *)
(* reminder_daemon thread that polls the documents and the wall clock.     *)
(*                                                                         *)
(* Strings are sequences of character codes (ord), so that strip(),        *)
(* strptime("%H:%M"), string comparison and list.sort() are computed the   *)
(* way Python computes them.  A date's isoformat() string is modelled by   *)
(* the triple <<year, month, day>> (isoformat is injective and the program *)
(* only compares date strings for equality).                               *)
(***************************************************************************)
EXTENDS Integers, Sequences, FiniteSets, TLC

(***************************************************************************)
(* Bounds of the model.                                                    *)
(***************************************************************************)
\* the wall clock runs over the start day and MaxDay following days
MaxDay == 1
\* the user does not put more than MaxEvents events on one date
MaxEvents == 2
\* the calendar is browsed up to MaxMonths months before and after the start
MaxMonths == 14
\* the cursors are followed over the start month and the CursorMonths after it
CursorMonths == 1
\* get_streak / completion_ratio are applied to logs over the last LogDays days
LogDays == 2

(***************************************************************************)
(* Characters and strings.                                                 *)
(***************************************************************************)
SPACE == 32
NEWLINE == 10
COLON == 58
ZERO == 48

IsDigit(c) == c \in ZERO..(ZERO + 9)
DigitVal(c) == c - ZERO

\* str.strip(): the characters the program can put in a buffer that Python
\* counts as whitespace are the space and the newline
IsSpace(c) == c \in {SPACE, NEWLINE}

RECURSIVE LStrip(_)
LStrip(s) == IF s # <<>> /\ IsSpace(Head(s)) THEN LStrip(Tail(s)) ELSE s

RECURSIVE RStrip(_)
RStrip(s) ==
  IF s # <<>> /\ IsSpace(s[Len(s)]) THEN RStrip(SubSeq(s, 1, Len(s) - 1)) ELSE s

strip(s) == RStrip(LStrip(s))

\* Python's < on str: lexicographic by code point, a proper prefix is smaller
StrLess(a, b) ==
  \E i \in 1..(Len(b)) :
     /\ i <= Len(a) + 1
     /\ \A j \in 1..(i - 1) : a[j] = b[j]
     /\ \/ i = Len(a) + 1
        \/ a[i] < b[i]

\* list.sort() on a list of str (stable; modelled as insertion sort)
RECURSIVE InsertStr(_, _)
InsertStr(x, s) ==
  IF s = <<>> THEN <<x>>
  ELSE IF StrLess(x, Head(s)) THEN <<x>> \o s
  ELSE <<Head(s)>> \o InsertStr(x, Tail(s))

RECURSIVE SortStrings(_)
SortStrings(s) ==
  IF s = <<>> THEN <<>>
  ELSE InsertStr(s[Len(s)], SortStrings(SubSeq(s, 1, Len(s) - 1)))

\* every prefix of every string of S: what a buffer can hold while the
\* user types one of the strings of S
Prefixes(S) == UNION { { SubSeq(s, 1, k) : k \in 0..Len(s) } : s \in S }

\* a fault: the pop that takes the first element whatever the index
RemoveFirst(s, i) == Tail(s)

\* s.pop(i - 1)
\* a fault: the pop that takes the last element
RemoveLast(s, i) == SubSeq(s, 1, Len(s) - 1)

RemoveAt(s, i) == SubSeq(s, 1, i - 1) \o SubSeq(s, i + 1, Len(s))

InSeq(x, s) == \E i \in 1..Len(s) : s[i] = x

(***************************************************************************)
(* datetime.strptime(t, "%H:%M") and strftime("%H:%M").                    *)
(***************************************************************************)
\* %H: one digit, or two digits 00..23
HourOK(h) ==
  \/ Len(h) = 1 /\ IsDigit(h[1])
  \/ /\ Len(h) = 2
     /\ \/ DigitVal(h[1]) = 2 /\ DigitVal(h[2]) \in 0..3
        \/ DigitVal(h[1]) \in 0..1 /\ IsDigit(h[2])

\* %M: one digit, or two digits 00..59
MinuteOK(m) ==
  \/ Len(m) = 1 /\ IsDigit(m[1])
  \/ Len(m) = 2 /\ DigitVal(m[1]) \in 0..5 /\ IsDigit(m[2])

\* strptime succeeds (raises no ValueError)
strptime_ok(t) ==
  \E i \in 1..Len(t) :
     /\ t[i] = COLON
     /\ HourOK(SubSeq(t, 1, i - 1))
     /\ MinuteOK(SubSeq(t, i + 1, Len(t)))

NumVal(ds) == IF Len(ds) = 1 THEN DigitVal(ds[1])
              ELSE 10 * DigitVal(ds[1]) + DigitVal(ds[2])

\* the minute of the day a string accepted by strptime denotes
MinuteOfDay(t) ==
  LET i == CHOOSE k \in 1..Len(t) : t[k] = COLON
  IN  60 * NumVal(SubSeq(t, 1, i - 1)) + NumVal(SubSeq(t, i + 1, Len(t)))

\* datetime.now().strftime("%H:%M") at minute m of the day: zero padded
strftime_HM(m) ==
  LET h == m \div 60
      mm == m % 60
  IN  << ZERO + (h \div 10), ZERO + (h % 10), COLON,
         ZERO + (mm \div 10), ZERO + (mm % 10) >>

(***************************************************************************)
(* Dates: calendar.monthrange, timedelta(days=1).                          *)
(***************************************************************************)
IsLeap(y) == (y % 4 = 0 /\ y % 100 # 0) \/ y % 400 = 0

monthrange(y, m) ==
  IF m = 2 THEN (IF IsLeap(y) THEN 29 ELSE 28)
  ELSE IF m \in {4, 6, 9, 11} THEN 30 ELSE 31

NextDate(d) ==
  IF d[3] < monthrange(d[1], d[2]) THEN <<d[1], d[2], d[3] + 1>>
  ELSE IF d[2] < 12 THEN <<d[1], d[2] + 1, 1>>
  ELSE <<d[1] + 1, 1, 1>>

PrevDate(d) ==
  IF d[3] > 1 THEN <<d[1], d[2], d[3] - 1>>
  ELSE IF d[2] > 1 THEN <<d[1], d[2] - 1, monthrange(d[1], d[2] - 1)>>
  ELSE <<d[1] - 1, 12, 31>>

RECURSIVE DateMinus(_, _)
DateMinus(d, n) == IF n = 0 THEN d ELSE DateMinus(PrevDate(d), n - 1)

RECURSIVE DatePlus(_, _)
DatePlus(d, n) == IF n = 0 THEN d ELSE DatePlus(NextDate(d), n - 1)

\* the first day of the clock: a year's last day, so that the day, the month
\* and the year roll over
StartDate == <<2024, 12, 31>>
NoDate == <<0, 0, 0>>

(***************************************************************************)
(* State.                                                                  *)
(***************************************************************************)
VARIABLES
  \* App: the in-memory collections (self.data["habits"], self.data["log"],
  \* self.sched["reminders"], self.events, self.journal)
  habits, log, sched, events, journal,
  \* the four files: [st |-> "absent" | "partial" | "full", body |-> ...]
  dataDoc, schedDoc, eventsDoc, journalDoc,
  \* the save the interactive loop is in the middle of ("none" between keys)
  writing,
  \* App: the interaction state
  tab, mode, status, input_buf, h_cursor, remind_cursor,
  cal_year, cal_month, cal_cursor, ev_cursor, cal_panel,
  ev_title, ev_time, ev_notes,
  \* the wall clock: [day |-> days since the start, date |-> ..., minute |-> ...]
  clock,
  \* reminder_daemon: its position, its locals, and the notifications sent
  dpc, now, d_items, d_i, fired, sent,
  \* history: the clock when the daemon last read it into now
  polled_at,
  \* the evaluation of get_streak / completion_ratio on a given log
  fn

memVars == <<habits, log, sched, events, journal>>
docVars == <<dataDoc, schedDoc, eventsDoc, journalDoc>>
uiVars == <<tab, mode, status, input_buf, h_cursor, remind_cursor>>
calVars == <<cal_year, cal_month, cal_cursor, ev_cursor, cal_panel>>
evVars == <<ev_title, ev_time, ev_notes>>
daemonVars == <<dpc, now, d_items, d_i, fired, sent, polled_at>>
vars == <<memVars, docVars, writing, uiVars, calVars, evVars, clock,
          daemonVars, fn>>

\* a dict with no key
EmptyDict == <<>>

\* dict.get(k, default)
Get(d, k, default) == IF k \in DOMAIN d THEN d[k] ELSE default

\* d with d[k] = v set
Put(d, k, v) == [x \in (DOMAIN d) \cup {k} |-> IF x = k THEN v ELSE d[x]]

\* a fault: the del that removes nothing
DelNothing(d, k) == d

\* d with del d[k]
Del(d, k) == [x \in (DOMAIN d) \ {k} |-> d[x]]

(***************************************************************************)
(* The persistent store.  open(path, "w") truncates the file and json.dump *)
(* then writes it: between the two the file holds no complete document.    *)
(* json.load of such a file raises.                                        *)
(***************************************************************************)
Absent(default) == [st |-> "absent", body |-> default]
Partial(default) == [st |-> "partial", body |-> default]
Full(v) == [st |-> "full", body |-> v]

DataDefault == [habits |-> <<>>, log |-> EmptyDict]

\* json.load raises on the file
LoadRaises(doc) == doc.st = "partial"

\* load_data, load_schedule, load_events, load_journal on a readable file
load_data(doc) == IF doc.st = "absent" THEN DataDefault ELSE doc.body
load_schedule(doc) == IF doc.st = "absent" THEN <<>> ELSE doc.body
load_events(doc) == IF doc.st = "absent" THEN EmptyDict ELSE doc.body
load_journal(doc) == IF doc.st = "absent" THEN EmptyDict ELSE doc.body

today_str == clock.date

FnIdle == [pc |-> "off"]
NoClock == [day |-> 0 - 1, date |-> NoDate, minute |-> 0]

Init ==
  /\ dataDoc = Absent(DataDefault)
  /\ schedDoc = Absent(<<>>)
  /\ eventsDoc = Absent(EmptyDict)
  /\ journalDoc = Absent(EmptyDict)
  /\ habits = load_data(dataDoc).habits
  /\ log = load_data(dataDoc).log
  /\ sched = load_schedule(schedDoc)
  /\ events = load_events(eventsDoc)
  /\ journal = load_journal(journalDoc)
  /\ writing = "none"
  /\ tab = 0
  /\ mode = "main"
  /\ status = <<"", <<>>>>
  /\ input_buf = <<>>
  /\ h_cursor = 0
  /\ remind_cursor = 0
  /\ clock = [day |-> 0, date |-> StartDate, minute |-> 0]
  /\ cal_year = StartDate[1]
  /\ cal_month = StartDate[2]
  /\ cal_cursor = StartDate[3] - 1
  /\ ev_cursor = 0
  /\ cal_panel = "events"
  /\ ev_title = <<>>
  /\ ev_time = <<>>
  /\ ev_notes = <<>>
  /\ dpc = "now"
  /\ now = <<>>
  /\ polled_at = NoClock
  /\ d_items = <<>>
  /\ d_i = 0
  /\ fired = {}
  /\ sent = EmptyDict
  /\ fn = FnIdle

(***************************************************************************)
(* Saving.  A handler that saves leaves the file truncated and the loop in *)
(* the save; save_finish is the rest of the save (json.dump and close),    *)
(* after which the loop takes the next key.                                *)
(***************************************************************************)
Idle == writing = "none"

\* a fault: a handler that returns without the save
save_left_out == UNCHANGED <<dataDoc, schedDoc, eventsDoc, journalDoc, writing>>

save_data_begin ==
  /\ dataDoc' = Partial(DataDefault)
  /\ writing' = "data"
  /\ UNCHANGED <<schedDoc, eventsDoc, journalDoc>>

save_schedule_begin ==
  /\ schedDoc' = Partial(<<>>)
  /\ writing' = "sched"
  /\ UNCHANGED <<dataDoc, eventsDoc, journalDoc>>

save_events_begin ==
  /\ eventsDoc' = Partial(EmptyDict)
  /\ writing' = "events"
  /\ UNCHANGED <<dataDoc, schedDoc, journalDoc>>

save_journal_begin ==
  /\ journalDoc' = Partial(EmptyDict)
  /\ writing' = "journal"
  /\ UNCHANGED <<dataDoc, schedDoc, eventsDoc>>

NoSave == UNCHANGED <<docVars, writing>>

save_finish ==
  /\ writing # "none"
  /\ writing' = "none"
  /\ dataDoc' = IF writing = "data" THEN Full([habits |-> habits, log |-> log])
                ELSE dataDoc
  /\ schedDoc' = IF writing = "sched" THEN Full(sched) ELSE schedDoc
  /\ eventsDoc' = IF writing = "events" THEN Full(events) ELSE eventsDoc
  /\ journalDoc' = IF writing = "journal" THEN Full(journal) ELSE journalDoc
  /\ UNCHANGED <<memVars, uiVars, calVars, evVars, clock, daemonVars, fn>>

(***************************************************************************)
(* The interactive loop, habits tab.  One action per key of a handler; a   *)
(* key is taken only between saves.                                        *)
(***************************************************************************)
NoStatus == <<"", <<>>>>

Max(a, b) == IF a >= b THEN a ELSE b
Min(a, b) == IF a <= b THEN a ELSE b

\* a fault: the tab key that switches in every mode
tab_switch_any_mode ==
  /\ Idle
  /\ tab' = 1 - tab
  /\ mode' = IF tab' = 0 THEN "main" ELSE "cal_browse"
  /\ status' = NoStatus
  /\ UNCHANGED <<input_buf, h_cursor, remind_cursor>>
  /\ NoSave
  /\ UNCHANGED <<memVars, calVars, evVars, clock, daemonVars, fn>>

\* App.run: the tab key in an idle mode
tab_switch ==
  /\ Idle
  /\ mode \in {"main", "cal_browse"}
  /\ tab' = 1 - tab
  /\ mode' = IF tab' = 0 THEN "main" ELSE "cal_browse"
  /\ status' = NoStatus
  /\ UNCHANGED <<input_buf, h_cursor, remind_cursor>>
  /\ NoSave
  /\ UNCHANGED <<memVars, calVars, evVars, clock, daemonVars, fn>>

InMode(t, m) == Idle /\ tab = t /\ mode = m

\* the tab key in any other mode: App.run hands it to the handler of the
\* mode, and none of _h_text_input, _h_del_confirm, _h_remind_nav and
\* _h_journal_edit has a branch for it
tab_key_ignored ==
  /\ Idle
  /\ mode \notin {"main", "cal_browse"}
  /\ UNCHANGED vars

h_main_down ==
  /\ InMode(0, "main")
  /\ habits # <<>>
  /\ h_cursor' = (h_cursor + 1) % Len(habits)
  /\ UNCHANGED <<tab, mode, status, input_buf, remind_cursor>>
  /\ NoSave
  /\ UNCHANGED <<memVars, calVars, evVars, clock, daemonVars, fn>>

h_main_up ==
  /\ InMode(0, "main")
  /\ habits # <<>>
  /\ h_cursor' = (h_cursor - 1) % Len(habits)
  /\ UNCHANGED <<tab, mode, status, input_buf, remind_cursor>>
  /\ NoSave
  /\ UNCHANGED <<memVars, calVars, evVars, clock, daemonVars, fn>>

\* a fault: the space key that sets the mark whatever it was
toggle_habit_check ==
  /\ InMode(0, "main")
  /\ habits # <<>>
  /\ LET name == habits[h_cursor + 1]
         day == Get(log, today_str, EmptyDict)
     IN  /\ log' = Put(log, today_str, Put(day, name, TRUE))
         /\ status' = <<"Checked:  ", name>>
  /\ save_data_begin
  /\ UNCHANGED <<habits, sched, events, journal>>
  /\ UNCHANGED <<tab, mode, input_buf, h_cursor, remind_cursor>>
  /\ UNCHANGED <<calVars, evVars, clock, daemonVars, fn>>

\* the space key in main with no habit: _toggle_habit returns at once
toggle_habit_none ==
  /\ InMode(0, "main")
  /\ habits = <<>>
  /\ UNCHANGED vars

\* the space key in main: _toggle_habit
toggle_habit ==
  /\ InMode(0, "main")
  /\ habits # <<>>
  /\ LET name == habits[h_cursor + 1]
         day == Get(log, today_str, EmptyDict)
         done == ~Get(day, name, FALSE)
     IN  /\ log' = Put(log, today_str, Put(day, name, done))
         /\ status' = <<IF done THEN "Checked:  " ELSE "Unchecked:  ", name>>
  /\ save_data_begin
  /\ UNCHANGED <<habits, sched, events, journal>>
  /\ UNCHANGED <<tab, mode, input_buf, h_cursor, remind_cursor>>
  /\ UNCHANGED <<calVars, evVars, clock, daemonVars, fn>>

h_main_add ==
  /\ InMode(0, "main")
  /\ mode' = "add"
  /\ input_buf' = <<>>
  /\ status' = NoStatus
  /\ UNCHANGED <<tab, h_cursor, remind_cursor>>
  /\ NoSave
  /\ UNCHANGED <<memVars, calVars, evVars, clock, daemonVars, fn>>

h_main_delete ==
  /\ InMode(0, "main")
  /\ habits # <<>>
  /\ mode' = "delete"
  /\ UNCHANGED <<tab, status, input_buf, h_cursor, remind_cursor>>
  /\ NoSave
  /\ UNCHANGED <<memVars, calVars, evVars, clock, daemonVars, fn>>

h_main_remind ==
  /\ InMode(0, "main")
  /\ mode' = "remind"
  /\ remind_cursor' = 0
  /\ UNCHANGED <<tab, status, input_buf, h_cursor>>
  /\ NoSave
  /\ UNCHANGED <<memVars, calVars, evVars, clock, daemonVars, fn>>

\* the modes _handle_habits and _handle_calendar give to _h_text_input
TextMode ==
  \/ tab = 0 /\ mode \in {"add", "remind_add"}
  \/ tab = 1 /\ mode \in {"event_add_title", "event_add_time", "event_add_notes"}

text_input_backspace ==
  /\ Idle /\ TextMode
  /\ input_buf # <<>>
  /\ input_buf' = SubSeq(input_buf, 1, Len(input_buf) - 1)
  /\ UNCHANGED <<tab, mode, status, h_cursor, remind_cursor>>
  /\ NoSave
  /\ UNCHANGED <<memVars, calVars, evVars, clock, daemonVars, fn>>

\* a fault: the escape that leaves the buffer as it is
text_input_escape_keep ==
  /\ Idle /\ TextMode
  /\ mode' = IF tab = 0 THEN "main" ELSE "cal_browse"
  /\ UNCHANGED <<tab, status, input_buf, h_cursor, remind_cursor>>
  /\ NoSave
  /\ UNCHANGED <<memVars, calVars, evVars, clock, daemonVars, fn>>

\* a fault: the escape that returns to main whatever the tab
text_input_escape_main ==
  /\ Idle /\ TextMode
  /\ mode' = "main"
  /\ input_buf' = <<>>
  /\ UNCHANGED <<tab, status, h_cursor, remind_cursor>>
  /\ NoSave
  /\ UNCHANGED <<memVars, calVars, evVars, clock, daemonVars, fn>>

text_input_escape ==
  /\ Idle /\ TextMode
  /\ mode' = IF tab = 0 THEN "main" ELSE "cal_browse"
  /\ input_buf' = <<>>
  /\ UNCHANGED <<tab, status, h_cursor, remind_cursor>>
  /\ NoSave
  /\ UNCHANGED <<memVars, calVars, evVars, clock, daemonVars, fn>>

\* a printable key
text_input_char(c) ==
  /\ Idle /\ TextMode
  /\ c \in 32..126
  /\ input_buf' = Append(input_buf, c)
  /\ UNCHANGED <<tab, mode, status, h_cursor, remind_cursor>>
  /\ NoSave
  /\ UNCHANGED <<memVars, calVars, evVars, clock, daemonVars, fn>>

\* a fault: the add that appends a name the list already holds
finish_add_again ==
  /\ InMode(0, "add")
  /\ LET name == strip(input_buf)
     IN  IF name # <<>>
         THEN /\ habits' = Append(habits, name)
              /\ save_data_begin
              /\ h_cursor' = Len(habits') - 1
              /\ status' = <<"Added:  ", name>>
         ELSE /\ NoSave
              /\ UNCHANGED <<habits, h_cursor, status>>
  /\ mode' = "main"
  /\ input_buf' = <<>>
  /\ UNCHANGED <<log, sched, events, journal, tab, remind_cursor>>
  /\ UNCHANGED <<calVars, evVars, clock, daemonVars, fn>>

\* the accept key in add
finish_add ==
  /\ InMode(0, "add")
  /\ LET name == strip(input_buf)
     IN  IF name # <<>> /\ ~InSeq(name, habits)
         THEN /\ habits' = Append(habits, name)
              /\ save_data_begin
              /\ h_cursor' = Len(habits') - 1
              /\ status' = <<"Added:  ", name>>
         ELSE /\ status' = IF name # <<>> THEN <<"'' already exists", name>>
                           ELSE status
              /\ NoSave
              /\ UNCHANGED <<habits, h_cursor>>
  /\ mode' = "main"
  /\ input_buf' = <<>>
  /\ UNCHANGED <<log, sched, events, journal, tab, remind_cursor>>
  /\ UNCHANGED <<calVars, evVars, clock, daemonVars, fn>>

\* a fault: the delete that takes the habit's marks out of the log as well
h_del_confirm_yes_forget ==
  /\ InMode(0, "delete")
  /\ IF habits # <<>>
     THEN /\ habits' = RemoveAt(habits, h_cursor + 1)
          /\ log' = [d \in DOMAIN log |-> Del(log[d], habits[h_cursor + 1])]
          /\ h_cursor' = Max(0, h_cursor - 1)
          /\ save_data_begin
          /\ status' = <<"Deleted:  ", habits[h_cursor + 1]>>
     ELSE /\ NoSave
          /\ UNCHANGED <<habits, log, h_cursor, status>>
  /\ mode' = "main"
  /\ UNCHANGED <<sched, events, journal, tab, input_buf, remind_cursor>>
  /\ UNCHANGED <<calVars, evVars, clock, daemonVars, fn>>

\* y or Y in delete
h_del_confirm_yes ==
  /\ InMode(0, "delete")
  /\ IF habits # <<>>
     THEN /\ habits' = RemoveAt(habits, h_cursor + 1)
          /\ h_cursor' = Max(0, h_cursor - 1)
          /\ save_data_begin
          /\ status' = <<"Deleted:  ", habits[h_cursor + 1]>>
     ELSE /\ NoSave
          /\ UNCHANGED <<habits, h_cursor, status>>
  /\ mode' = "main"
  /\ UNCHANGED <<log, sched, events, journal, tab, input_buf, remind_cursor>>
  /\ UNCHANGED <<calVars, evVars, clock, daemonVars, fn>>

\* n, N or escape in delete
h_del_confirm_no ==
  /\ InMode(0, "delete")
  /\ mode' = "main"
  /\ UNCHANGED <<tab, status, input_buf, h_cursor, remind_cursor>>
  /\ NoSave
  /\ UNCHANGED <<memVars, calVars, evVars, clock, daemonVars, fn>>

\* any other key in delete: no branch of _h_del_confirm takes it
h_del_confirm_other ==
  /\ InMode(0, "delete")
  /\ UNCHANGED vars

\* escape, q or Q in remind
h_remind_nav_close ==
  /\ InMode(0, "remind")
  /\ mode' = "main"
  /\ UNCHANGED <<tab, status, input_buf, h_cursor, remind_cursor>>
  /\ NoSave
  /\ UNCHANGED <<memVars, calVars, evVars, clock, daemonVars, fn>>

h_remind_nav_down ==
  /\ InMode(0, "remind")
  /\ sched # <<>>
  /\ remind_cursor' = (remind_cursor + 1) % Len(sched)
  /\ UNCHANGED <<tab, mode, status, input_buf, h_cursor>>
  /\ NoSave
  /\ UNCHANGED <<memVars, calVars, evVars, clock, daemonVars, fn>>

h_remind_nav_up ==
  /\ InMode(0, "remind")
  /\ sched # <<>>
  /\ remind_cursor' = (remind_cursor - 1) % Len(sched)
  /\ UNCHANGED <<tab, mode, status, input_buf, h_cursor>>
  /\ NoSave
  /\ UNCHANGED <<memVars, calVars, evVars, clock, daemonVars, fn>>

h_remind_nav_add ==
  /\ InMode(0, "remind")
  /\ mode' = "remind_add"
  /\ input_buf' = <<>>
  /\ UNCHANGED <<tab, status, h_cursor, remind_cursor>>
  /\ NoSave
  /\ UNCHANGED <<memVars, calVars, evVars, clock, daemonVars, fn>>

\* a fault: the delete that leaves the cursor where it was
h_remind_nav_delete_stay ==
  /\ InMode(0, "remind")
  /\ sched # <<>>
  /\ sched' = RemoveAt(sched, remind_cursor + 1)
  /\ save_schedule_begin
  /\ UNCHANGED <<habits, log, events, journal>>
  /\ UNCHANGED <<tab, mode, status, input_buf, h_cursor, remind_cursor>>
  /\ UNCHANGED <<calVars, evVars, clock, daemonVars, fn>>

\* d or D in remind
h_remind_nav_delete ==
  /\ InMode(0, "remind")
  /\ sched # <<>>
  /\ sched' = RemoveAt(sched, remind_cursor + 1)
  /\ remind_cursor' = Max(0, remind_cursor - 1)
  /\ save_schedule_begin
  /\ UNCHANGED <<habits, log, events, journal>>
  /\ UNCHANGED <<tab, mode, status, input_buf, h_cursor>>
  /\ UNCHANGED <<calVars, evVars, clock, daemonVars, fn>>

StatusInvalidTime == <<"Invalid - use HH:MM (24h)", <<>>>>

\* r.append(t); r.sort(); save_schedule(self.sched)
remind_add_new(t) ==
  /\ sched' = SortStrings(Append(sched, t))
  /\ save_schedule_begin
  /\ status' = <<"Reminder set:  ", t>>

\* a fault: the duplicate that is appended and saved all the same
remind_add_again(t) ==
  /\ sched' = SortStrings(Append(sched, t))
  /\ save_schedule_begin
  /\ status' = <<" already exists", t>>

\* the else branch of "if t not in r"
remind_add_duplicate(t) ==
  /\ status' = <<" already exists", t>>
  /\ NoSave
  /\ UNCHANGED sched

\* the accept key in remind_add
finish_remind_add ==
  /\ InMode(0, "remind_add")
  /\ LET t == strip(input_buf)
     IN  IF strptime_ok(t)
         THEN IF ~InSeq(t, sched)
              THEN remind_add_new(t)
              ELSE remind_add_duplicate(t)
         ELSE /\ status' = StatusInvalidTime
              /\ NoSave
              /\ UNCHANGED sched
  /\ mode' = "remind"
  /\ input_buf' = <<>>
  /\ UNCHANGED <<habits, log, events, journal, tab, h_cursor, remind_cursor>>
  /\ UNCHANGED <<calVars, evVars, clock, daemonVars, fn>>

(***************************************************************************)
(* The interactive loop, calendar tab.                                     *)
(***************************************************************************)
cal_day_date ==
  IF 1 <= cal_cursor + 1 /\ cal_cursor + 1 <= monthrange(cal_year, cal_month)
  THEN <<cal_year, cal_month, cal_cursor + 1>>
  ELSE NoDate

cal_date_str == cal_day_date

\* a fault: the step back from January that keeps the year
cal_prev_same_year == IF cal_month = 1 THEN <<cal_year, 12>>
                      ELSE <<cal_year, cal_month - 1>>

\* _cal_next, _cal_prev: the displayed <<year, month>> after the move
cal_next == IF cal_month = 12 THEN <<cal_year + 1, 1>>
            ELSE <<cal_year, cal_month + 1>>
cal_prev == IF cal_month = 1 THEN <<cal_year - 1, 12>>
            ELSE <<cal_year, cal_month - 1>>

CalFrame ==
  /\ UNCHANGED <<ev_cursor, cal_panel>>
  /\ UNCHANGED uiVars
  /\ NoSave
  /\ UNCHANGED <<memVars, evVars, clock, daemonVars, fn>>

h_cal_browse_right ==
  /\ InMode(1, "cal_browse")
  /\ IF cal_cursor < monthrange(cal_year, cal_month) - 1
     THEN /\ cal_cursor' = cal_cursor + 1
          /\ UNCHANGED <<cal_year, cal_month>>
     ELSE /\ cal_year' = cal_next[1]
          /\ cal_month' = cal_next[2]
          /\ cal_cursor' = 0
  /\ CalFrame

h_cal_browse_left ==
  /\ InMode(1, "cal_browse")
  /\ IF cal_cursor > 0
     THEN /\ cal_cursor' = cal_cursor - 1
          /\ UNCHANGED <<cal_year, cal_month>>
     ELSE /\ cal_year' = cal_prev[1]
          /\ cal_month' = cal_prev[2]
          /\ cal_cursor' = monthrange(cal_prev[1], cal_prev[2]) - 1
  /\ CalFrame

h_cal_browse_down ==
  /\ InMode(1, "cal_browse")
  /\ cal_cursor' = Min(cal_cursor + 7, monthrange(cal_year, cal_month) - 1)
  /\ UNCHANGED <<cal_year, cal_month>>
  /\ CalFrame

h_cal_browse_up ==
  /\ InMode(1, "cal_browse")
  /\ cal_cursor' = Max(cal_cursor - 7, 0)
  /\ UNCHANGED <<cal_year, cal_month>>
  /\ CalFrame

\* the ] key
h_cal_browse_next ==
  /\ InMode(1, "cal_browse")
  /\ cal_year' = cal_next[1]
  /\ cal_month' = cal_next[2]
  /\ cal_cursor' = 0
  /\ CalFrame

\* the [ key
h_cal_browse_prev ==
  /\ InMode(1, "cal_browse")
  /\ cal_year' = cal_prev[1]
  /\ cal_month' = cal_prev[2]
  /\ cal_cursor' = 0
  /\ CalFrame

\* n or N
h_cal_browse_new ==
  /\ InMode(1, "cal_browse")
  /\ ev_title' = <<>> /\ ev_time' = <<>> /\ ev_notes' = <<>>
  /\ mode' = "event_add_title"
  /\ input_buf' = <<>>
  /\ UNCHANGED <<tab, status, h_cursor, remind_cursor>>
  /\ NoSave
  /\ UNCHANGED <<memVars, calVars, clock, daemonVars, fn>>

\* e, E, j or J: the panel shown
h_cal_browse_panel(p) ==
  /\ InMode(1, "cal_browse")
  /\ p \in {"events", "journal"}
  /\ cal_panel' = p
  /\ UNCHANGED <<cal_year, cal_month, cal_cursor, ev_cursor>>
  /\ UNCHANGED uiVars
  /\ NoSave
  /\ UNCHANGED <<memVars, evVars, clock, daemonVars, fn>>

finish_ev_title ==
  /\ InMode(1, "event_add_title")
  /\ ev_title' = strip(input_buf)
  /\ input_buf' = <<>>
  /\ mode' = "event_add_time"
  /\ UNCHANGED <<ev_time, ev_notes, tab, status, h_cursor, remind_cursor>>
  /\ NoSave
  /\ UNCHANGED <<memVars, calVars, clock, daemonVars, fn>>

\* a fault: the accept key that keeps a time that does not parse
finish_ev_time_keep ==
  /\ InMode(1, "event_add_time")
  /\ ev_time' = strip(input_buf)
  /\ input_buf' = <<>>
  /\ mode' = "event_add_notes"
  /\ UNCHANGED <<ev_title, ev_notes, tab, status, h_cursor, remind_cursor>>
  /\ NoSave
  /\ UNCHANGED <<memVars, calVars, clock, daemonVars, fn>>

finish_ev_time ==
  /\ InMode(1, "event_add_time")
  /\ LET t == strip(input_buf)
     IN  IF t # <<>> /\ ~strptime_ok(t)
         THEN /\ status' = <<"Invalid time, skipped", <<>>>>
              /\ ev_time' = <<>>
         ELSE /\ ev_time' = t
              /\ UNCHANGED status
  /\ input_buf' = <<>>
  /\ mode' = "event_add_notes"
  /\ UNCHANGED <<ev_title, ev_notes, tab, h_cursor, remind_cursor>>
  /\ NoSave
  /\ UNCHANGED <<memVars, calVars, clock, daemonVars, fn>>

\* the sort key of an event: e.get("time") or "99:99"
EvKey(e) == IF e.time # <<>> THEN e.time ELSE <<57, 57, 58, 57, 57>>

\* evs.sort(key=...): stable, modelled as insertion sort
RECURSIVE InsertEv(_, _)
InsertEv(x, s) ==
  IF s = <<>> THEN <<x>>
  ELSE IF StrLess(EvKey(x), EvKey(Head(s))) THEN <<x>> \o s
  ELSE <<Head(s)>> \o InsertEv(x, Tail(s))

RECURSIVE SortEvents(_)
SortEvents(s) ==
  IF s = <<>> THEN <<>>
  ELSE InsertEv(s[Len(s)], SortEvents(SubSeq(s, 1, Len(s) - 1)))

finish_ev_notes ==
  /\ InMode(1, "event_add_notes")
  /\ ev_notes' = strip(input_buf)
  /\ input_buf' = <<>>
  /\ LET ds == cal_date_str
         ev == [title |-> ev_title, time |-> ev_time, notes |-> ev_notes']
     IN  IF ev_title # <<>> /\ ds # NoDate
         THEN /\ events' = Put(events, ds,
                               SortEvents(Append(Get(events, ds, <<>>), ev)))
              /\ save_events_begin
              /\ status' = <<"Event added:  ", ev_title>>
              /\ cal_panel' = "events"
         ELSE /\ NoSave
              /\ UNCHANGED <<events, status, cal_panel>>
  /\ mode' = "cal_browse"
  /\ UNCHANGED <<habits, log, sched, journal, tab, h_cursor, remind_cursor>>
  /\ UNCHANGED <<cal_year, cal_month, cal_cursor, ev_cursor, ev_title, ev_time>>
  /\ UNCHANGED <<clock, daemonVars, fn>>

\* a fault: the delete that keeps the date with an empty list
delete_event_keep_date ==
  /\ InMode(1, "cal_browse")
  /\ LET ds == cal_date_str
         evs == Get(events, ds, <<>>)
     IN  /\ ds # NoDate
         /\ IF evs = <<>>
            THEN /\ status' = <<"No events to delete", <<>>>>
                 /\ NoSave
                 /\ UNCHANGED <<events, ev_cursor>>
            ELSE /\ ev_cursor < Len(evs)
                 /\ events' = Put(events, ds, RemoveAt(evs, ev_cursor + 1))
                 /\ ev_cursor' = Max(0, ev_cursor - 1)
                 /\ save_events_begin
                 /\ status' = <<"Deleted:  ", evs[ev_cursor + 1].title>>
  /\ UNCHANGED <<habits, log, sched, journal>>
  /\ UNCHANGED <<tab, mode, input_buf, h_cursor, remind_cursor>>
  /\ UNCHANGED <<cal_year, cal_month, cal_cursor, cal_panel>>
  /\ UNCHANGED <<evVars, clock, daemonVars, fn>>

\* x or X in cal_browse: _delete_event
delete_event ==
  /\ InMode(1, "cal_browse")
  /\ LET ds == cal_date_str
         evs == Get(events, ds, <<>>)
     IN  /\ ds # NoDate
         /\ IF evs = <<>>
            THEN /\ status' = <<"No events to delete", <<>>>>
                 /\ NoSave
                 /\ UNCHANGED <<events, ev_cursor>>
            ELSE /\ ev_cursor < Len(evs)
                 /\ events' = IF Len(evs) = 1 THEN Del(events, ds)
                              ELSE Put(events, ds, RemoveAt(evs, ev_cursor + 1))
                 /\ ev_cursor' = Max(0, ev_cursor - 1)
                 /\ save_events_begin
                 /\ status' = <<"Deleted:  ", evs[ev_cursor + 1].title>>
  /\ UNCHANGED <<habits, log, sched, journal>>
  /\ UNCHANGED <<tab, mode, input_buf, h_cursor, remind_cursor>>
  /\ UNCHANGED <<cal_year, cal_month, cal_cursor, cal_panel>>
  /\ UNCHANGED <<evVars, clock, daemonVars, fn>>

\* the date the journal actions work on: cal_date_str() or today_str()
journal_date == IF cal_date_str # NoDate THEN cal_date_str ELSE today_str

\* w or W in cal_browse
h_cal_browse_write ==
  /\ InMode(1, "cal_browse")
  /\ input_buf' = IF journal_date \in DOMAIN journal
                  THEN journal[journal_date].text ELSE <<>>
  /\ mode' = "journal_edit"
  /\ cal_panel' = "journal"
  /\ UNCHANGED <<tab, status, h_cursor, remind_cursor>>
  /\ UNCHANGED <<cal_year, cal_month, cal_cursor, ev_cursor>>
  /\ NoSave
  /\ UNCHANGED <<memVars, evVars, clock, daemonVars, fn>>

\* escape in journal_edit: _save_journal
save_journal ==
  /\ InMode(1, "journal_edit")
  /\ LET ds == journal_date
         text == strip(input_buf)
     IN  IF text # <<>>
         THEN /\ journal' = Put(journal, ds,
                     [text |-> text, modified |-> <<clock.date, clock.minute>>])
              /\ save_journal_begin
              /\ status' = <<"Journal saved", <<>>>>
         ELSE /\ IF ds \in DOMAIN journal
                 THEN journal' = Del(journal, ds) /\ save_journal_begin
                 ELSE UNCHANGED journal /\ NoSave
              /\ status' = <<"Journal cleared", <<>>>>
  /\ mode' = "cal_browse"
  /\ input_buf' = <<>>
  /\ cal_panel' = "journal"
  /\ UNCHANGED <<habits, log, sched, events, tab, h_cursor, remind_cursor>>
  /\ UNCHANGED <<cal_year, cal_month, cal_cursor, ev_cursor>>
  /\ UNCHANGED <<evVars, clock, daemonVars, fn>>

\* ctrl-X in journal_edit
journal_discard ==
  /\ InMode(1, "journal_edit")
  /\ mode' = "cal_browse"
  /\ input_buf' = <<>>
  /\ status' = <<"Journal discarded", <<>>>>
  /\ UNCHANGED <<tab, h_cursor, remind_cursor>>
  /\ NoSave
  /\ UNCHANGED <<memVars, calVars, evVars, clock, daemonVars, fn>>

journal_backspace ==
  /\ InMode(1, "journal_edit")
  /\ input_buf # <<>>
  /\ input_buf' = SubSeq(input_buf, 1, Len(input_buf) - 1)
  /\ UNCHANGED <<tab, mode, status, h_cursor, remind_cursor>>
  /\ NoSave
  /\ UNCHANGED <<memVars, calVars, evVars, clock, daemonVars, fn>>

\* a fault: the accept key that saves and closes, as it does in the text forms
journal_newline_saves == save_journal

\* the accept key in journal_edit
journal_newline ==
  /\ InMode(1, "journal_edit")
  /\ input_buf' = Append(input_buf, NEWLINE)
  /\ UNCHANGED <<tab, mode, status, h_cursor, remind_cursor>>
  /\ NoSave
  /\ UNCHANGED <<memVars, calVars, evVars, clock, daemonVars, fn>>

\* a printable key in journal_edit
journal_char(c) ==
  /\ InMode(1, "journal_edit")
  /\ c \in 32..126
  /\ input_buf' = Append(input_buf, c)
  /\ UNCHANGED <<tab, mode, status, h_cursor, remind_cursor>>
  /\ NoSave
  /\ UNCHANGED <<memVars, calVars, evVars, clock, daemonVars, fn>>

(***************************************************************************)
(* The wall clock.  It is observed at the first and at the last minute of  *)
(* each day (00:00 and 23:59), over the start day and MaxDay more days.    *)
(***************************************************************************)
LastMinute == 24 * 60 - 1

clock_tick ==
  /\ clock.minute < LastMinute \/ clock.day < MaxDay
  /\ clock' = IF clock.minute < LastMinute
              THEN [clock EXCEPT !.minute = LastMinute]
              ELSE [day |-> clock.day + 1, date |-> NextDate(clock.date),
                    minute |-> 0]
  /\ UNCHANGED <<memVars, docVars, writing, uiVars, calVars, evVars,
                 daemonVars, fn>>

(***************************************************************************)
(* reminder_daemon, one action per statement that reads the clock or a     *)
(* file.  An exception in the thread ends it (dpc = "dead").               *)
(***************************************************************************)
\* checked_today
checked_today(l, name) == Get(Get(l, today_str, EmptyDict), name, FALSE)

\* what send_notification is called for: a reminder time, or an event
ReminderNote(d, t) == <<"r", d, t, <<>>, <<>>>>
EventNote(d, ev) == <<"ev", d, ev.time, ev.title, ev.notes>>

\* the keys of the set fired
ReminderKey(d, t) == <<"r", d, t, <<>>>>
EventKey(d, ev) == <<"ev", d, ev.time, ev.title>>

\* what subprocess.Popen does with a command: it starts it, raises
\* FileNotFoundError (no such command), or raises another OSError (the
\* command cannot be executed, no process can be created)
PopenOutcomes == {"started", "missing", "failed"}

\* the outcomes of the Popen calls for notify-send, paplay and aplay
DispatchOutcomes == PopenOutcomes \X PopenOutcomes \X PopenOutcomes

\* send_notification raises: only FileNotFoundError is caught; aplay is tried
\* only when paplay is missing
send_notification_raises(o) ==
  \/ o[1] = "failed"
  \/ o[2] = "failed"
  \/ o[2] = "missing" /\ o[3] = "failed"

\* send_notification returns
send_notification(note) == sent' = Put(sent, note, Get(sent, note, 0) + 1)

DaemonFrame ==
  UNCHANGED <<memVars, docVars, writing, uiVars, calVars, evVars, clock, fn>>

\* now = datetime.now().strftime("%H:%M")
reminder_daemon_now ==
  /\ dpc = "now"
  /\ now' = strftime_HM(clock.minute)
  /\ polled_at' = clock
  /\ dpc' = "load_schedule"
  /\ UNCHANGED <<d_items, d_i, fired, sent>>
  /\ DaemonFrame

\* for t in load_schedule().get("reminders", [])
reminder_daemon_load_schedule ==
  /\ dpc = "load_schedule"
  /\ IF LoadRaises(schedDoc)
     THEN /\ dpc' = "dead"
          /\ UNCHANGED <<d_items, d_i>>
     ELSE /\ d_items' = load_schedule(schedDoc)
          /\ d_i' = 1
          /\ dpc' = "reminders"
  /\ UNCHANGED <<now, polled_at, fired, sent>>
  /\ DaemonFrame

\* the body of the loop over the reminders, for the next one
reminder_daemon_reminder ==
  /\ dpc = "reminders"
  /\ d_i <= Len(d_items)
  /\ LET t == d_items[d_i]
         key == ReminderKey(today_str, t)
     IN  IF t = now /\ key \notin fired
         THEN IF LoadRaises(dataDoc)
              THEN /\ dpc' = "dead"
                   /\ UNCHANGED <<d_i, fired, sent>>
              ELSE \E o \in DispatchOutcomes :
                     IF send_notification_raises(o)
                     THEN /\ dpc' = "dead"
                          /\ UNCHANGED <<d_i, fired, sent>>
                     ELSE /\ send_notification(ReminderNote(today_str, t))
                          /\ fired' = fired \cup {key}
                          /\ d_i' = d_i + 1
                          /\ UNCHANGED dpc
         ELSE /\ d_i' = d_i + 1
              /\ UNCHANGED <<dpc, fired, sent>>
  /\ UNCHANGED <<now, polled_at, d_items>>
  /\ DaemonFrame

\* for ev in load_events().get(today_str(), [])
reminder_daemon_load_events ==
  /\ dpc = "reminders"
  /\ d_i > Len(d_items)
  /\ IF LoadRaises(eventsDoc)
     THEN /\ dpc' = "dead"
          /\ UNCHANGED <<d_items, d_i>>
     ELSE /\ d_items' = Get(load_events(eventsDoc), today_str, <<>>)
          /\ d_i' = 1
          /\ dpc' = "events"
  /\ UNCHANGED <<now, polled_at, fired, sent>>
  /\ DaemonFrame

\* the body of the loop over today's events, for the next one
reminder_daemon_event ==
  /\ dpc = "events"
  /\ d_i <= Len(d_items)
  /\ LET ev == d_items[d_i]
         ekey == EventKey(today_str, ev)
     IN  IF ev.time = now /\ ekey \notin fired
         THEN \E o \in DispatchOutcomes :
                IF send_notification_raises(o)
                THEN /\ dpc' = "dead"
                     /\ UNCHANGED <<d_i, fired, sent>>
                ELSE /\ send_notification(EventNote(today_str, ev))
                     /\ fired' = fired \cup {ekey}
                     /\ d_i' = d_i + 1
                     /\ UNCHANGED dpc
         ELSE /\ d_i' = d_i + 1
              /\ UNCHANGED <<dpc, fired, sent>>
  /\ UNCHANGED <<now, polled_at, d_items>>
  /\ DaemonFrame

\* time.sleep(10), and the next turn of the loop
reminder_daemon_sleep ==
  /\ dpc = "events"
  /\ d_i > Len(d_items)
  /\ dpc' = "now"
  /\ now' = <<>>
  /\ polled_at' = NoClock
  /\ d_items' = <<>>
  /\ d_i' = 0
  /\ UNCHANGED <<fired, sent>>
  /\ DaemonFrame

(***************************************************************************)
(* get_streak and completion_ratio, evaluated on a given log.  fn holds    *)
(* the arguments and the locals of the call.                               *)
(***************************************************************************)
\* a fault: the test that only looks for the date
date_in_log(l, ds, name) == ds \in DOMAIN l

\* log[ds].get(name) is true, for ds in log
marked_done(l, ds, name) == ds \in DOMAIN l /\ Get(l[ds], name, FALSE)

\* get_streak: one turn of the while loop
get_streak_step ==
  /\ fn.pc = "get_streak"
  /\ fn' = IF marked_done(fn.log, fn.d, fn.name)
           THEN [fn EXCEPT !.streak = fn.streak + 1, !.d = PrevDate(fn.d)]
           ELSE [fn EXCEPT !.pc = "streak_returned"]
  /\ UNCHANGED <<memVars, docVars, writing, uiVars, calVars, evVars, clock,
                 daemonVars>>

\* sum(1 for h in habits if day.get(h))
RECURSIVE CountDone(_, _)
CountDone(day, hs) ==
  IF hs = <<>> THEN 0
  ELSE (IF Get(day, Head(hs), FALSE) THEN 1 ELSE 0) + CountDone(day, Tail(hs))

\* a fault: the ratio that counts every name marked done on the date
ratio_of_all_marks(l, hs, ds) ==
  LET day == Get(l, ds, EmptyDict)
  IN  <<Cardinality({ n \in DOMAIN day : day[n] }),
        IF hs = <<>> THEN 1 ELSE Len(hs)>>

\* completion_ratio: the float num / den as the pair <<num, den>>
completion_ratio(l, hs, ds) ==
  IF hs = <<>> THEN <<0, 1>>
  ELSE <<CountDone(Get(l, ds, EmptyDict), hs), Len(hs)>>

completion_ratio_call ==
  /\ fn.pc = "completion_ratio"
  /\ fn' = [fn EXCEPT !.pc = "ratio_returned",
                      !.ratio = completion_ratio(fn.log, fn.habits, fn.d)]
  /\ UNCHANGED <<memVars, docVars, writing, uiVars, calVars, evVars, clock,
                 daemonVars>>

\* the habit names "a" and "b", and the lists of habits
PureNames == { <<97>>, <<98>> }
PureHabits == { <<>>, <<<<97>>>>, <<<<98>>>>, <<<<97>>, <<98>>>>, <<<<98>>, <<97>>>> }

\* the last LogDays days, today included
PureDates == { DateMinus(StartDate, k) : k \in 0..(LogDays - 1) }

\* a day's dict: each name absent, False or True
PureDays ==
  UNION { [N -> BOOLEAN] : N \in SUBSET PureNames }

\* the logs: each of the dates absent or holding a day's dict
PureLogs ==
  UNION { [D -> PureDays] : D \in SUBSET PureDates }

InitPure ==
  /\ dataDoc = Absent(DataDefault)
  /\ schedDoc = Absent(<<>>)
  /\ eventsDoc = Absent(EmptyDict)
  /\ journalDoc = Absent(EmptyDict)
  /\ habits = <<>> /\ log = EmptyDict /\ sched = <<>>
  /\ events = EmptyDict /\ journal = EmptyDict
  /\ writing = "none"
  /\ tab = 0 /\ mode = "main" /\ status = NoStatus /\ input_buf = <<>>
  /\ h_cursor = 0 /\ remind_cursor = 0
  /\ clock = [day |-> 0, date |-> StartDate, minute |-> 0]
  /\ cal_year = StartDate[1] /\ cal_month = StartDate[2]
  /\ cal_cursor = StartDate[3] - 1
  /\ ev_cursor = 0 /\ cal_panel = "events"
  /\ ev_title = <<>> /\ ev_time = <<>> /\ ev_notes = <<>>
  /\ dpc = "now" /\ now = <<>> /\ polled_at = NoClock
  /\ d_items = <<>> /\ d_i = 0 /\ fired = {} /\ sent = EmptyDict
  /\ \E l \in PureLogs :
        \/ \E n \in PureNames :
              fn = [pc |-> "get_streak", log |-> l, name |-> n, habits |-> <<>>,
                    d |-> today_str, streak |-> 0, ratio |-> <<0, 1>>]
        \/ \E hs \in PureHabits, ds \in PureDates :
              fn = [pc |-> "completion_ratio", log |-> l, name |-> <<>>,
                    habits |-> hs, d |-> ds, streak |-> 0, ratio |-> <<0, 1>>]

NextPure == get_streak_step \/ completion_ratio_call

SpecPure == InitPure /\ [][NextPure]_vars

(***************************************************************************)
(* Specifications.  Each is the program with the user pressing the keys of *)
(* one part of the interface and typing, key by key, prefixes of a few     *)
(* given strings.                                                          *)
(***************************************************************************)
\* the user types a key that keeps the buffer a prefix of a string of S
Types(S) ==
  \E c \in { c \in 32..126 : \E s \in S : InSeq(c, s) } :
     text_input_char(c) /\ input_buf' \in Prefixes(S)

\* " 0:0" and "00:00"
ReminderInputs == { <<32, 48, 58, 48>>, <<48, 48, 58, 48, 48>> }

\* the reminder list
NextSchedule ==
  \/ h_main_remind
  \/ h_remind_nav_close
  \/ h_remind_nav_down
  \/ h_remind_nav_up
  \/ h_remind_nav_add
  \/ h_remind_nav_delete
  \/ Types(ReminderInputs)
  \/ text_input_backspace
  \/ text_input_escape
  \/ finish_remind_add
  \/ save_finish

SpecSchedule == Init /\ [][NextSchedule]_vars

\* the reminder list, the clock and the daemon
NextRemind ==
  \/ NextSchedule
  \/ clock_tick
  \/ reminder_daemon_now
  \/ reminder_daemon_load_schedule
  \/ reminder_daemon_reminder
  \/ reminder_daemon_load_events
  \/ reminder_daemon_sleep

SpecRemind == Init /\ [][NextRemind]_vars

\* the text typed in the steps of the event form: titles "m" and " m",
\* times "9:0" and "00:00", notes "n "
EventInputs ==
  CASE mode = "event_add_title" -> { <<109>>, <<32, 109>> }
    [] mode = "event_add_time" -> { <<57, 58, 48>>, <<48, 48, 58, 48, 48>> }
    [] mode = "event_add_notes" -> { <<110, 32>> }
    [] OTHER -> {}

\* the selected date has room for one more event
EventRoom == Len(Get(events, cal_date_str, <<>>)) < MaxEvents

\* the event form and the event list of the selected date
NextEvents ==
  \/ tab_switch
  \/ h_cal_browse_new
  \/ Types(EventInputs)
  \/ text_input_backspace
  \/ text_input_escape
  \/ finish_ev_title
  \/ finish_ev_time
  \/ EventRoom /\ finish_ev_notes
  \/ delete_event
  \/ save_finish

SpecEvents == Init /\ [][NextEvents]_vars

\* times "00:00" only, no notes
TimedEventInputs ==
  CASE mode = "event_add_title" -> { <<109>> }
    [] mode = "event_add_time" -> { <<48, 48, 58, 48, 48>> }
    [] OTHER -> {}

\* the event form, the clock and the daemon
NextEventDaemon ==
  \/ tab_switch
  \/ h_cal_browse_new
  \/ Types(TimedEventInputs)
  \/ finish_ev_title
  \/ finish_ev_time
  \/ EventRoom /\ finish_ev_notes
  \/ save_finish
  \/ clock_tick
  \/ reminder_daemon_now
  \/ reminder_daemon_load_schedule
  \/ reminder_daemon_load_events
  \/ reminder_daemon_event
  \/ reminder_daemon_sleep

SpecEventDaemon == Init /\ [][NextEventDaemon]_vars

\* the selected date is the start day or one of the MaxDay days after it
CalInWindow ==
  \E k \in 0..MaxDay : cal_day_date = DatePlus(StartDate, k)

\* "j", the accept key, " ", "k": the buffer "j\n k", and a blank buffer " "
JournalInputs == { <<106, 10, 32, 107>>, <<32>> }

\* the journal editor, on the start day and the MaxDay days after it
NextJournal ==
  \/ tab_switch
  \/ h_cal_browse_right /\ CalInWindow'
  \/ h_cal_browse_left /\ CalInWindow'
  \/ h_cal_browse_write
  \/ \E c \in 32..126 : journal_char(c) /\ input_buf' \in Prefixes(JournalInputs)
  \/ journal_newline /\ input_buf' \in Prefixes(JournalInputs)
  \/ journal_backspace
  \/ save_journal
  \/ journal_discard
  \/ save_finish

SpecJournal == Init /\ [][NextJournal]_vars

\* the displayed month is within MaxMonths months of the start month
CalNearStart ==
  LET k == (cal_year - StartDate[1]) * 12 + (cal_month - StartDate[2])
  IN  0 - MaxMonths <= k /\ k <= MaxMonths

\* browsing the calendar
NextCalendar ==
  \/ tab_switch
  \/ h_cal_browse_right /\ CalNearStart'
  \/ h_cal_browse_left /\ CalNearStart'
  \/ h_cal_browse_down
  \/ h_cal_browse_up
  \/ h_cal_browse_next /\ CalNearStart'
  \/ h_cal_browse_prev /\ CalNearStart'
  \/ \E p \in {"events", "journal"} : h_cal_browse_panel(p)

SpecCalendar == Init /\ [][NextCalendar]_vars

\* " a" and "b "
HabitInputs == { <<32, 97>>, <<98, 32>> }

\* the habit list and today's check marks
NextHabits ==
  \/ h_main_down
  \/ h_main_up
  \/ toggle_habit
  \/ toggle_habit_none
  \/ h_main_add
  \/ h_main_delete
  \/ Types(HabitInputs)
  \/ text_input_backspace
  \/ text_input_escape
  \/ finish_add
  \/ h_del_confirm_yes
  \/ h_del_confirm_no
  \/ h_del_confirm_other
  \/ save_finish
  \/ clock_tick

SpecHabits == Init /\ [][NextHabits]_vars

\* the text typed in each form: the habit "a", the reminder "0:0", the
\* event "m" with no time and no notes
StoreInputs ==
  CASE mode = "add" -> { <<97>> }
    [] mode = "remind_add" -> { <<48, 58, 48>> }
    [] mode = "event_add_title" -> { <<109>> }
    [] OTHER -> {}

\* every handler that changes one of the four collections
NextStoreKeys ==
  \/ tab_switch
  \/ toggle_habit
  \/ h_main_add
  \/ h_main_delete
  \/ h_main_remind
  \/ Types(StoreInputs)
  \/ finish_add
  \/ h_del_confirm_yes
  \/ h_remind_nav_close
  \/ h_remind_nav_add
  \/ h_remind_nav_delete
  \/ finish_remind_add
  \/ h_cal_browse_new
  \/ finish_ev_title
  \/ finish_ev_time
  \/ EventRoom /\ finish_ev_notes
  \/ delete_event
  \/ h_cal_browse_write
  \/ journal_char(106) /\ input_buf' = <<106>>
  \/ journal_backspace
  \/ save_journal
  \/ save_finish

\* the handlers and the daemon
NextStore ==
  \/ NextStoreKeys
  \/ reminder_daemon_now
  \/ reminder_daemon_load_schedule
  \/ reminder_daemon_reminder
  \/ reminder_daemon_load_events
  \/ reminder_daemon_event
  \/ reminder_daemon_sleep

SpecStore == Init /\ [][NextStore]_vars

\* the text typed in each form: the habit "a", the reminder "0:0", the
\* event "m" at "0:0" with the notes "n"
KeysInputs ==
  CASE mode = "add" -> { <<97>> }
    [] mode = "remind_add" -> { <<48, 58, 48>> }
    [] mode = "event_add_title" -> { <<109>> }
    [] mode = "event_add_time" -> { <<48, 58, 48>> }
    [] mode = "event_add_notes" -> { <<110>> }
    [] OTHER -> {}

\* the keys of every mode of both tabs, one event at most
NextKeys ==
  \/ tab_switch
  \/ tab_key_ignored
  \/ h_main_add
  \/ h_main_delete
  \/ h_main_remind
  \/ Types(KeysInputs)
  \/ text_input_escape
  \/ finish_add
  \/ h_del_confirm_yes
  \/ h_del_confirm_no
  \/ h_del_confirm_other
  \/ h_remind_nav_close
  \/ h_remind_nav_add
  \/ h_remind_nav_delete
  \/ finish_remind_add
  \/ h_cal_browse_new
  \/ finish_ev_title
  \/ finish_ev_time
  \/ events = EmptyDict /\ finish_ev_notes
  \/ delete_event
  \/ h_cal_browse_write
  \/ journal_char(106) /\ input_buf' = <<106>>
  \/ save_journal
  \/ journal_discard
  \/ save_finish

SpecKeys == Init /\ [][NextKeys]_vars

\* the habits "a" and "b", the reminders "0:0" and "1:0"
CursorInputs ==
  CASE mode = "add" -> { <<97>>, <<98>> }
    [] mode = "remind_add" -> { <<48, 58, 48>>, <<49, 58, 48>> }
    [] OTHER -> {}

\* the displayed month is the start month or one of the CursorMonths after it
CalFromStart ==
  LET k == (cal_year - StartDate[1]) * 12 + (cal_month - StartDate[2])
  IN  0 <= k /\ k <= CursorMonths

\* the keys that move a cursor or change the length of a list with a cursor
NextCursors ==
  \/ tab_switch
  \/ h_main_down
  \/ h_main_up
  \/ h_main_add
  \/ h_main_delete
  \/ h_main_remind
  \/ Types(CursorInputs)
  \/ finish_add
  \/ h_del_confirm_yes
  \/ h_remind_nav_close
  \/ h_remind_nav_down
  \/ h_remind_nav_up
  \/ h_remind_nav_add
  \/ h_remind_nav_delete
  \/ finish_remind_add
  \/ h_cal_browse_right /\ CalFromStart'
  \/ h_cal_browse_left /\ CalFromStart'
  \/ h_cal_browse_down
  \/ h_cal_browse_up
  \/ h_cal_browse_next /\ CalFromStart'
  \/ h_cal_browse_prev /\ CalFromStart'
  \/ save_finish

SpecCursors == Init /\ [][NextCursors]_vars

(***************************************************************************)
(* The claims.                                                             *)
(***************************************************************************)
RECURSIVE SumOver(_, _)
SumOver(f, S) ==
  IF S = {} THEN 0
  ELSE LET x == CHOOSE y \in S : TRUE IN f[x] + SumOver(f, S \ {x})

\* the number of reminder notifications sent for date d and minute m of the day
RemindersSent(d, m) ==
  SumOver(sent, { n \in DOMAIN sent :
                    n[1] = "r" /\ n[2] = d /\ MinuteOfDay(n[3]) = m })

\* the daemon has run the loop over the schedule it loaded, all of it within
\* one minute of the clock
ReminderLoopDone ==
  dpc = "reminders" /\ d_i > Len(d_items) /\ polled_at = clock

\* C1: for every date D and reminder time T of the schedule the daemon sends
\* at most one reminder notification for (D, T), and once it has polled in
\* minute T of D with T in the schedule it has sent exactly one.
C1_OneReminderPerDayAndTime ==
  /\ \A n \in DOMAIN sent : n[1] = "r" => RemindersSent(n[2], MinuteOfDay(n[3])) <= 1
  /\ ReminderLoopDone =>
       \A i \in 1..Len(d_items) :
          MinuteOfDay(d_items[i]) = clock.minute =>
             RemindersSent(clock.date, clock.minute) = 1

\* C3: the schedule holds no two entries denoting the same time of day and is
\* in ascending order of time of day.
C3_ScheduleAscendingByTimeOfDay ==
  \A i, j \in 1..Len(sched) :
     i < j => MinuteOfDay(sched[i]) < MinuteOfDay(sched[j])

\* C4: an Add reminder attempt whose trimmed input is not a valid HH:MM time,
\* or is already in the schedule, leaves the schedule and the schedule
\* document as they were, and the two cases report different statuses.
C4_RejectedAddChangesNothing ==
  [][ (mode = "remind_add" /\ mode' = "remind") =>
        LET t == strip(input_buf)
        IN  /\ ~strptime_ok(t) =>
                 /\ sched' = sched /\ schedDoc' = schedDoc /\ writing' = "none"
                 /\ status' = StatusInvalidTime
            /\ (strptime_ok(t) /\ InSeq(t, sched)) =>
                 /\ sched' = sched /\ schedDoc' = schedDoc /\ writing' = "none"
                 /\ status' = <<" already exists", t>>
                 /\ status' # StatusInvalidTime ]_vars

\* a duplicate has been rejected while the schedule holds another time too
C4_Witness ==
  /\ mode = "remind" /\ status[1] = " already exists"
  /\ Len(sched) = 2 /\ load_schedule(schedDoc) = sched

\* the number of notifications sent on date d for the event record ev
EventNotesSent(d, ev) == Get(sent, EventNote(d, ev), 0)

\* the daemon has run the loop over the events it loaded, all of it within
\* one minute of the clock
EventLoopDone ==
  dpc = "events" /\ d_i > Len(d_items) /\ polled_at = clock

\* C2: once the daemon has polled, every event record stored for today whose
\* time is the current minute has had exactly one notification each: as many
\* notifications for a record as the date's list holds copies of it.
C2_OneNotificationPerEvent ==
  /\ \A n \in DOMAIN sent : n[1] = "ev" => sent[n] <= MaxEvents
  /\ EventLoopDone =>
       \A i \in 1..Len(d_items) :
          (d_items[i].time # <<>> /\ MinuteOfDay(d_items[i].time) = clock.minute)
            => EventNotesSent(clock.date, d_items[i])
                 = Cardinality({ j \in 1..Len(d_items) : d_items[j] = d_items[i] })

\* C5: every date's events are in ascending order of time of day, the events
\* with no time after all the events with a time.
C5_EventsAscendingByTimeOfDay ==
  \A ds \in DOMAIN events :
     \A i, j \in 1..Len(events[ds]) :
        i < j =>
          LET a == events[ds][i].time
              b == events[ds][j].time
          IN  /\ ~(a = <<>> /\ b # <<>>)
              /\ (a # <<>> /\ b # <<>>) => MinuteOfDay(a) <= MinuteOfDay(b)

\* the date the calendar cursor selects
SelectedDate == <<cal_year, cal_month, cal_cursor + 1>>

\* C6: no journal entry has empty or whitespace-only text; saving the editor
\* with a buffer that is empty after trimming removes the selected date's
\* entry, saving any other buffer stores exactly the trimmed text for the
\* selected date and changes no other date; the saved document is the map.
C6_JournalTextNeverEmpty ==
  /\ [](\A ds \in DOMAIN journal : strip(journal[ds].text) # <<>>)
  /\ [](Idle => \A ds \in DOMAIN load_journal(journalDoc) :
                   strip(load_journal(journalDoc)[ds].text) # <<>>)
  /\ [][ (mode = "journal_edit" /\ mode' = "cal_browse"
            /\ status'[1] # "Journal discarded") =>
           /\ \A ds \in (DOMAIN journal \cup DOMAIN journal') \ {SelectedDate} :
                 /\ ds \in DOMAIN journal /\ ds \in DOMAIN journal'
                 /\ journal'[ds] = journal[ds]
           /\ IF strip(input_buf) = <<>>
              THEN SelectedDate \notin DOMAIN journal'
              ELSE /\ SelectedDate \in DOMAIN journal'
                   /\ journal'[SelectedDate].text = strip(input_buf)
           /\ journal' # journal => writing' = "journal" ]_vars
  /\ [][ (writing = "journal" /\ writing' = "none") =>
           (journalDoc'.st = "full" /\ journalDoc'.body = journal) ]_vars

\* a whitespace-only buffer has been saved over an existing entry, which is
\* gone from the map and from the document, while another date keeps its own
C6_Witness ==
  /\ status[1] = "Journal cleared" /\ Idle
  /\ SelectedDate \notin DOMAIN journal
  /\ journalDoc.st = "full" /\ journalDoc.body = journal
  /\ \E ds \in DOMAIN journal : Len(journal[ds].text) > 1

\* C7: deleting a habit removes exactly the selected name from the habit list
\* and leaves the whole log as it was, in memory and in the saved document.
C7_DeleteHabitKeepsLog ==
  /\ [][ (mode = "delete" /\ habits' # habits) =>
           /\ h_cursor + 1 \in 1..Len(habits)
           /\ habits' = SubSeq(habits, 1, h_cursor) \o
                        SubSeq(habits, h_cursor + 2, Len(habits))
           /\ log' = log
           /\ writing' = "data" ]_vars
  /\ [][ (writing = "data" /\ writing' = "none") =>
           /\ dataDoc'.st = "full"
           /\ dataDoc'.body.habits = habits /\ dataDoc'.body.log = log
           /\ habits' = habits /\ log' = log ]_vars

\* a habit with a check mark has been deleted while another habit stays: the
\* log, in memory and saved, still holds the deleted habit's mark
C7_Witness ==
  /\ status[1] = "Deleted:  " /\ Idle /\ Len(habits) = 1
  /\ \E d \in DOMAIN log :
        /\ status[2] \in DOMAIN log[d] /\ log[d][status[2]]
        /\ ~InSeq(status[2], habits)
        /\ dataDoc.st = "full" /\ dataDoc.body.log = log

\* h is marked done in the log k days before today
DoneDaysAgo(l, h, k) ==
  LET ds == DateMinus(today_str, k)
  IN  ds \in DOMAIN l /\ h \in DOMAIN l[ds] /\ l[ds][h] = TRUE

\* C8: get_streak returns the length of the maximal run of consecutive days
\* ending today on which the habit is marked done; 0 when today is absent or
\* false, whatever the earlier days hold.
C8_StreakIsRunEndingToday ==
  fn.pc = "streak_returned" =>
    /\ \A k \in 0..(fn.streak - 1) : DoneDaysAgo(fn.log, fn.name, k)
    /\ ~DoneDaysAgo(fn.log, fn.name, fn.streak)
    /\ ~DoneDaysAgo(fn.log, fn.name, 0) => fn.streak = 0

\* a streak of two days has been returned
C8_Witness ==
  /\ fn.pc = "streak_returned"
  /\ fn.streak = 2

\* C9: completion_ratio is the number of habits of the list marked done on
\* the date divided by the length of the list, 0 for an empty list; names of
\* the log that are not in the list do not count.
C9_RatioCountsListedHabits ==
  fn.pc = "ratio_returned" =>
    LET day == IF fn.d \in DOMAIN fn.log THEN fn.log[fn.d] ELSE EmptyDict
        done == { i \in 1..Len(fn.habits) :
                    fn.habits[i] \in DOMAIN day /\ day[fn.habits[i]] = TRUE }
    IN  /\ fn.ratio[2] > 0
        /\ fn.habits = <<>> => fn.ratio[1] = 0
        /\ fn.habits # <<>> =>
             fn.ratio[1] * Len(fn.habits) = Cardinality(done) * fn.ratio[2]

\* the ratio returned is 0 for a list of one habit that is not done on the
\* date, while a name that is not in the list is marked done on it
C9_Witness ==
  /\ fn.pc = "ratio_returned"
  /\ Len(fn.habits) = 1 /\ fn.ratio = <<0, 1>>
  /\ fn.d \in DOMAIN fn.log
  /\ \E n \in DOMAIN fn.log[fn.d] : fn.log[fn.d][n] /\ ~InSeq(n, fn.habits)

\* C10: between keys each of the four documents, loaded, is the in-memory
\* collection; a handler that changes a collection goes on to save it; no
\* step of the daemon changes a document.
C10_DocumentsEqualMemory ==
  /\ [](Idle => /\ load_data(dataDoc) = [habits |-> habits, log |-> log]
                /\ load_schedule(schedDoc) = sched
                /\ load_events(eventsDoc) = events
                /\ load_journal(journalDoc) = journal)
  /\ [][ /\ (habits' # habits \/ log' # log) => writing' = "data"
         /\ sched' # sched => writing' = "sched"
         /\ events' # events => writing' = "events"
         /\ journal' # journal => writing' = "journal" ]_vars
  /\ [][ (dpc' # dpc \/ d_i' # d_i) => docVars' = docVars ]_vars

\* all four collections hold something and are saved, and the daemon has
\* read today's events from the saved document
C10_Witness ==
  /\ Idle
  /\ habits # <<>> /\ log # EmptyDict /\ dataDoc.st = "full"
  /\ sched # <<>> /\ schedDoc.st = "full"
  /\ events # EmptyDict /\ eventsDoc.st = "full"
  /\ journal # EmptyDict /\ journalDoc.st = "full"
  /\ dpc = "events" /\ d_items = events[today_str]

\* the steps in which the daemon loads a document: the schedule, the habit
\* document (for a reminder that is due and not fired), the events
LoadsSchedule == dpc = "load_schedule" /\ dpc' # dpc
LoadsData ==
  /\ dpc = "reminders" /\ d_i <= Len(d_items)
  /\ d_items[d_i] = now /\ ReminderKey(today_str, d_items[d_i]) \notin fired
  /\ (dpc' # dpc \/ d_i' # d_i)
LoadsEvents == dpc = "reminders" /\ d_i > Len(d_items) /\ dpc' # dpc

\* C11: a load by the daemon that falls within a save of the same document
\* by the interactive loop reads a whole document, the one before the save or
\* the one after it, never an empty or partly written one.
C11_DaemonLoadSeesWholeDocument ==
  [][ /\ LoadsSchedule => schedDoc.st \in {"absent", "full"}
      /\ LoadsData => dataDoc.st \in {"absent", "full"}
      /\ LoadsEvents => eventsDoc.st \in {"absent", "full"} ]_vars

\* C12: a load that fails in a tick of the daemon makes it skip the tick with
\* nothing dispatched and go on to the next tick.
C12_FailedLoadSkipsTick ==
  [][ ( \/ LoadsSchedule /\ LoadRaises(schedDoc)
        \/ LoadsData /\ LoadRaises(dataDoc)
        \/ LoadsEvents /\ LoadRaises(eventsDoc) )
      => (dpc' = "now" /\ sent' = sent /\ fired' = fired) ]_vars

\* the steps in which the daemon calls send_notification, for a reminder and
\* for an event
DispatchesReminder == LoadsData /\ ~LoadRaises(dataDoc)
DispatchesEvent ==
  /\ dpc = "events" /\ d_i <= Len(d_items)
  /\ d_items[d_i].time = now /\ EventKey(today_str, d_items[d_i]) \notin fired
  /\ (dpc' # dpc \/ d_i' # d_i)

\* C13: whatever the outcome of a dispatch, the daemon records the key as
\* fired and goes on with the next reminder or event.
C13_DispatchFailureStaysInside ==
  [][ /\ DispatchesReminder =>
           /\ ReminderKey(today_str, d_items[d_i]) \in fired'
           /\ dpc' = dpc /\ d_i' = d_i + 1
      /\ DispatchesEvent =>
           /\ EventKey(today_str, d_items[d_i]) \in fired'
           /\ dpc' = dpc /\ d_i' = d_i + 1 ]_vars

\* C14: each poll reads the schedule and the events as they are persisted at
\* that time; a notification is sent only for a reminder or event read in the
\* poll; once a poll has gone through the schedule within a minute, every
\* reminder it read that denotes that minute has been fired for the day.
C14_PollSeesPersistedWrites ==
  /\ [][ /\ (LoadsSchedule /\ ~LoadRaises(schedDoc)) =>
              d_items' = load_schedule(schedDoc)
         /\ (LoadsEvents /\ ~LoadRaises(eventsDoc)) =>
              d_items' = Get(load_events(eventsDoc), today_str, <<>>)
         /\ \A n \in DOMAIN sent' :
              Get(sent, n, 0) < sent'[n] =>
                 IF n[1] = "r"
                 THEN dpc = "reminders" /\ InSeq(n[3], d_items)
                 ELSE dpc = "events" /\
                      \E i \in 1..Len(d_items) : EventNote(n[2], d_items[i]) = n
       ]_vars
  /\ [](ReminderLoopDone =>
          \A i \in 1..Len(d_items) :
             MinuteOfDay(d_items[i]) = clock.minute =>
                ReminderKey(clock.date, d_items[i]) \in fired)

\* the idle mode of a tab, and the modes of the habits tab
IdleMode(t) == IF t = 0 THEN "main" ELSE "cal_browse"
HabitModes == {"main", "add", "delete", "remind", "remind_add"}

\* C15: the machine starts in (Habits, Main); the tab changes only from the
\* idle mode of the current tab, to the idle mode of the other tab, with no
\* collection and no document changed; the mode always belongs to the tab.
C15_TabToggleOnlyInIdleModes ==
  /\ (tab = 0 /\ mode = "main")
  /\ [](tab \in {0, 1} /\ (tab = 0 <=> mode \in HabitModes))
  /\ [][ tab' # tab =>
           /\ mode = IdleMode(tab)
           /\ tab' = 1 - tab /\ mode' = IdleMode(tab')
           /\ memVars' = memVars /\ docVars' = docVars /\ writing' = writing
       ]_vars
  /\ [][ tab_key_ignored => (tab' = tab /\ mode' = mode) ]_vars

\* the tab has been toggled to the calendar and back while a habit and a
\* reminder are stored
C15_Witness ==
  /\ tab = 0 /\ mode = "main" /\ Idle
  /\ habits # <<>> /\ sched # <<>>
  /\ ev_title # <<>>

\* the record the event form holds when the notes are accepted
FormEvent == [title |-> ev_title, time |-> ev_time, notes |-> strip(input_buf)]

\* s with x put in at some place
InsertedIn(x, s, t) ==
  \E k \in 1..(Len(s) + 1) :
     t = SubSeq(s, 1, k - 1) \o <<x>> \o SubSeq(s, k, Len(s))

\* C16: the accept key moves the event form one step on, whatever the buffer
\* holds: title to time, time to notes, notes to browse; a time that does
\* not parse only empties the time field; the events and their document
\* change in the last step alone, where the record of the form is added to
\* the selected date exactly when the title is not empty, and is then saved.
C16_EventFormIsLinear ==
  /\ [](InMode(1, "event_add_title") => ENABLED finish_ev_title)
  /\ [](InMode(1, "event_add_time") => ENABLED finish_ev_time)
  /\ [][ finish_ev_title =>
           /\ mode' = "event_add_time"
           /\ ev_title' = strip(input_buf)
           /\ events' = events /\ docVars' = docVars /\ writing' = writing
       ]_vars
  /\ [][ finish_ev_time =>
           /\ mode' = "event_add_notes"
           /\ ev_title' = ev_title
           /\ ev_time' = IF strptime_ok(strip(input_buf)) THEN strip(input_buf)
                         ELSE <<>>
           /\ events' = events /\ docVars' = docVars /\ writing' = writing
       ]_vars
  /\ [][ finish_ev_notes =>
           /\ mode' = "cal_browse"
           /\ IF ev_title # <<>>
              THEN /\ DOMAIN events' = DOMAIN events \cup {SelectedDate}
                   /\ \A ds \in DOMAIN events \ {SelectedDate} :
                         events'[ds] = events[ds]
                   /\ InsertedIn(FormEvent, Get(events, SelectedDate, <<>>),
                                 events'[SelectedDate])
                   /\ writing' = "events"
              ELSE events' = events /\ docVars' = docVars /\ writing' = writing
       ]_vars
  /\ [][ (mode \in {"event_add_title", "event_add_time", "event_add_notes"}
            /\ ~finish_ev_notes) => events' = events /\ docVars' = docVars ]_vars
  /\ [][ (writing = "events" /\ writing' = "none") =>
           (eventsDoc'.st = "full" /\ eventsDoc'.body = events) ]_vars

\* a time that does not parse has been skipped: the form is at the notes with
\* its title and no time, next to an event stored before
C16_Witness ==
  /\ mode = "event_add_notes" /\ status[1] = "Invalid time, skipped"
  /\ ev_title # <<>> /\ ev_time = <<>>
  /\ SelectedDate \in DOMAIN events

\* C17: escape in a text mode returns to the idle mode of the tab with the
\* buffer empty and no collection or document changed; every form starts
\* with an empty buffer, the event form with empty title, time and notes
\* too, so that what a cancelled form held is in no later record.
C17_EscapeDiscardsTheForm ==
  /\ [][ text_input_escape =>
           /\ tab' = tab /\ mode' = IdleMode(tab)
           /\ input_buf' = <<>>
           /\ memVars' = memVars /\ docVars' = docVars /\ writing' = writing
       ]_vars
  /\ [][ (mode' # mode /\ mode' \in {"add", "remind_add", "event_add_title",
                                      "event_add_time", "event_add_notes"})
           => input_buf' = <<>> ]_vars
  /\ [][ (mode' # mode /\ mode' = "event_add_title") =>
           (ev_title' = <<>> /\ ev_time' = <<>> /\ ev_notes' = <<>>) ]_vars

\* the event form has been left by escape after its title was accepted: no
\* event is stored, none was ever saved
C17_Witness ==
  /\ InMode(1, "cal_browse") /\ input_buf = <<>>
  /\ ev_title # <<>> /\ ev_time # <<>>
  /\ events = EmptyDict /\ eventsDoc.st = "absent"

\* C18: in ConfirmDelete the affirmative key removes the selected habit,
\* saves and returns to Main; every other key returns to Main with the habit
\* list, the log and the habit document unchanged.
C18_OtherKeysCancelDelete ==
  /\ [](InMode(0, "delete") =>
          ~ENABLED (h_del_confirm_other /\ mode' # "main"))
  /\ [][ h_del_confirm_yes =>
           /\ mode' = "main"
           /\ habits' = SubSeq(habits, 1, h_cursor) \o
                        SubSeq(habits, h_cursor + 2, Len(habits))
           /\ writing' = "data" ]_vars
  /\ [][ (h_del_confirm_no \/ h_del_confirm_other) =>
           /\ mode' = "main"
           /\ habits' = habits /\ log' = log /\ dataDoc' = dataDoc ]_vars

\* C19: the habit names are pairwise distinct; Add habit with a name the list
\* holds changes nothing and reports that it exists; with a new name it
\* appends the name, selects it and saves.
C19_HabitNamesDistinct ==
  /\ [](\A i, j \in 1..Len(habits) : i # j => habits[i] # habits[j])
  /\ [][ finish_add =>
           LET name == strip(input_buf)
           IN  /\ mode' = "main"
               /\ log' = log
               /\ (name # <<>> /\ InSeq(name, habits)) =>
                    /\ habits' = habits /\ dataDoc' = dataDoc
                    /\ writing' = writing
                    /\ status' = <<"'' already exists", name>>
               /\ (name # <<>> /\ ~InSeq(name, habits)) =>
                    /\ habits' = Append(habits, name)
                    /\ habits'[h_cursor' + 1] = name
                    /\ writing' = "data"
               /\ name = <<>> =>
                    /\ habits' = habits /\ dataDoc' = dataDoc
                    /\ writing' = writing
       ]_vars
  /\ [][ (writing = "data" /\ writing' = "none") =>
           (dataDoc'.st = "full" /\ dataDoc'.body.habits = habits
              /\ dataDoc'.body.log = log) ]_vars

\* a name the list of two habits holds has been typed again and refused
C19_Witness ==
  /\ InMode(0, "main") /\ status[1] = "'' already exists"
  /\ Len(habits) = 2 /\ InSeq(status[2], habits)
  /\ dataDoc.st = "full" /\ dataDoc.body.habits = habits

\* C20: the accept key in AddReminder on a text that is no HH:MM time reports
\* an error and leaves the machine in AddReminder.
C20_InvalidTimeKeepsAddReminderOpen ==
  [][ (finish_remind_add /\ ~strptime_ok(strip(input_buf))) =>
        (status' = StatusInvalidTime /\ mode' = "remind_add") ]_vars

\* the names in the habit list or in the log
KnownNames ==
  { habits[i] : i \in 1..Len(habits) } \cup UNION { DOMAIN log[d] : d \in DOMAIN log }

\* C21: the space key in main flips today's mark of the selected habit and
\* saves the habit document; the habit list, the mark of every other habit
\* and of every other date, the schedule, the events and the journal stay as
\* they were, and so do the selection and the date, so that the next space
\* key flips the same mark back; with no habit the key changes nothing.
C21_ToggleFlipsTodayOnly ==
  /\ [][ toggle_habit =>
           LET name == habits[h_cursor + 1]
           IN  /\ marked_done(log', today_str, name)
                    = ~marked_done(log, today_str, name)
               /\ \A d \in DOMAIN log \cup DOMAIN log', h \in KnownNames :
                     (d # today_str \/ h # name) =>
                        marked_done(log', d, h) = marked_done(log, d, h)
               /\ habits' = habits /\ h_cursor' = h_cursor
               /\ today_str' = today_str
               /\ sched' = sched /\ events' = events /\ journal' = journal
               /\ writing' = "data" ]_vars
  /\ [][ (writing = "data" /\ writing' = "none") =>
           /\ dataDoc' = Full([habits |-> habits', log |-> log'])
           /\ habits' = habits /\ log' = log /\ h_cursor' = h_cursor
           /\ today_str' = today_str ]_vars
  /\ [](InMode(0, "main") /\ habits = <<>> =>
          ~ENABLED (toggle_habit \/ (toggle_habit_none /\ vars' # vars)))

\* the selected habit has been checked and unchecked again today and the
\* document is saved, while the other habit keeps its mark
C21_Witness ==
  /\ Idle /\ status[1] = "Unchecked:  " /\ Len(habits) = 2
  /\ status[2] = habits[h_cursor + 1]
  /\ ~marked_done(log, today_str, status[2])
  /\ \E h \in KnownNames : h # status[2] /\ marked_done(log, today_str, h)
  /\ dataDoc = Full([habits |-> habits, log |-> log])

\* the events of the selected date
SelectedEvents == Get(events, cal_date_str, <<>>)

CalPos == <<cal_year, cal_month, cal_cursor>>

\* C23: in cal_browse the right key on the last day of a month selects day 1
\* of the next month and the left key on day 1 selects the last day of the
\* month before, the year rolling between December and January, so that left
\* after right and right after left lead back to the same date; the up and
\* down keys move by 7 days, stopping at the first and the last day of the
\* displayed month, which they leave as it is; the ] and [ keys display the
\* next and the previous month; the displayed month is always in 1..12.
C23_DayCursorCrossesMonths ==
  /\ [](cal_month \in 1..12)
  /\ [][ h_cal_browse_right =>
           /\ IF cal_cursor + 1 < monthrange(cal_year, cal_month)
              THEN CalPos' = <<cal_year, cal_month, cal_cursor + 1>>
              ELSE CalPos' = <<IF cal_month = 12 THEN cal_year + 1 ELSE cal_year,
                               IF cal_month = 12 THEN 1 ELSE cal_month + 1, 0>>
           /\ \E p \in {CalPos} :
                 /\ (ENABLED (h_cal_browse_left /\ CalPos' = p))'
                 /\ (~ENABLED (h_cal_browse_left /\ CalPos' # p))' ]_vars
  /\ [][ h_cal_browse_left =>
           /\ IF cal_cursor > 0
              THEN CalPos' = <<cal_year, cal_month, cal_cursor - 1>>
              ELSE /\ cal_year' = IF cal_month = 1 THEN cal_year - 1 ELSE cal_year
                   /\ cal_month' = IF cal_month = 1 THEN 12 ELSE cal_month - 1
                   /\ cal_cursor' = monthrange(cal_year', cal_month') - 1
           /\ \E p \in {CalPos} :
                 /\ (ENABLED (h_cal_browse_right /\ CalPos' = p))'
                 /\ (~ENABLED (h_cal_browse_right /\ CalPos' # p))' ]_vars
  /\ [][ h_cal_browse_down =>
           /\ cal_cursor' = IF cal_cursor + 7 <= monthrange(cal_year, cal_month) - 1
                            THEN cal_cursor + 7
                            ELSE monthrange(cal_year, cal_month) - 1
           /\ UNCHANGED <<cal_year, cal_month>> ]_vars
  /\ [][ h_cal_browse_up =>
           /\ cal_cursor' = IF cal_cursor - 7 >= 0 THEN cal_cursor - 7 ELSE 0
           /\ UNCHANGED <<cal_year, cal_month>> ]_vars
  /\ [][ h_cal_browse_next =>
           /\ cal_month' = (cal_month % 12) + 1
           /\ cal_year' = IF cal_month = 12 THEN cal_year + 1 ELSE cal_year ]_vars
  /\ [][ h_cal_browse_prev =>
           /\ cal_month' = ((cal_month + 10) % 12) + 1
           /\ cal_year' = IF cal_month = 1 THEN cal_year - 1 ELSE cal_year ]_vars

\* the cursor is on the last day of February of a leap year, a year before
\* the start
C23_Witness ==
  /\ InMode(1, "cal_browse")
  /\ CalPos = <<StartDate[1], 2, 28>> /\ IsLeap(StartDate[1])

\* C24: in journal_edit the accept key appends a newline to the buffer and
\* stays in the editor; escape saves and returns to cal_browse, and no other
\* key of the editor changes the journal or its document, so that the discard
\* key returns to cal_browse with both as they were when the editor opened.
C24_OnlyEscapeSavesTheJournal ==
  /\ [][ journal_newline =>
           /\ input_buf' = input_buf \o <<NEWLINE>>
           /\ mode' = "journal_edit"
           /\ UNCHANGED <<journal, journalDoc, writing>> ]_vars
  /\ [][ save_journal =>
           /\ mode' = "cal_browse"
           /\ strip(input_buf) # <<>> =>
                /\ writing' = "journal"
                /\ SelectedDate \in DOMAIN journal'
                /\ journal'[SelectedDate].text = strip(input_buf) ]_vars
  /\ [][ (mode = "journal_edit" /\ ~save_journal) =>
           UNCHANGED <<journal, journalDoc, writing>> ]_vars
  /\ [][ journal_discard =>
           /\ mode' = "cal_browse"
           /\ UNCHANGED <<journal, journalDoc, writing>> ]_vars
  /\ [](mode = "journal_edit" => Idle /\ journalDoc.st # "partial")

\* the accept key has been pressed in the editor opened on a saved entry: the
\* buffer ends with the newline and the entry is as it was saved
C24_Witness ==
  /\ InMode(1, "journal_edit")
  /\ Len(input_buf) >= 2 /\ input_buf[Len(input_buf)] = NEWLINE
  /\ SelectedDate \in DOMAIN journal
  /\ journal[SelectedDate].text = SubSeq(input_buf, 1, Len(input_buf) - 1)
  /\ journalDoc = Full(journal)

CalendarModes == {"cal_browse", "event_add_title", "event_add_time",
                  "event_add_notes", "journal_edit"}

\* the key that leaves a mode for the idle mode of its tab: escape in the
\* text forms and the reminder list, n in the delete prompt, ctrl-X in the
\* journal editor
LeaveKey ==
  \/ text_input_escape
  \/ h_del_confirm_no
  \/ h_remind_nav_close
  \/ journal_discard

\* C25: on the habits tab the mode is one of main, add, delete, remind and
\* remind_add, and on the calendar tab one of cal_browse, event_add_title,
\* event_add_time, event_add_notes and journal_edit; a key changes the tab
\* only between the two idle modes; from every other mode one key leads to
\* the idle mode of the tab, and a save under way always completes.
C25_ModeBelongsToTab ==
  /\ [](tab = 0 => mode \in HabitModes)
  /\ [](tab = 1 => mode \in CalendarModes)
  /\ [](tab \in {0, 1} /\ HabitModes \cap CalendarModes = {})
  /\ [][ mode' # mode =>
           \/ tab' = tab /\ mode' \in (IF tab = 0 THEN HabitModes ELSE CalendarModes)
           \/ tab' = 1 - tab /\ mode = IdleMode(tab) /\ mode' = IdleMode(tab') ]_vars
  /\ [](Idle /\ mode # IdleMode(tab) =>
          ENABLED (LeaveKey /\ tab' = tab /\ mode' = IdleMode(tab)))
  /\ [](~Idle => ENABLED save_finish)

\* the notes step of the event form on the calendar tab, with text typed,
\* while a habit and a reminder are stored
C25_Witness ==
  /\ InMode(1, "event_add_notes") /\ input_buf # <<>>
  /\ habits # <<>> /\ sched # <<>>

\* C26: the habit cursor indexes a habit whenever there is one; in remind and
\* remind_add the reminder cursor indexes a reminder whenever there is one;
\* the up and down keys of both lists wrap around the ends of the list; the
\* calendar cursor is a day of the displayed month, so that cal_day_date is
\* always a date and the journal never falls back to today.
C26_CursorsStayInRange ==
  /\ [](habits # <<>> => h_cursor \in 0..(Len(habits) - 1))
  /\ []((sched # <<>> /\ mode \in {"remind", "remind_add"}) =>
           remind_cursor \in 0..(Len(sched) - 1))
  /\ [][ h_main_down =>
           h_cursor' = IF h_cursor = Len(habits) - 1 THEN 0 ELSE h_cursor + 1 ]_vars
  /\ [][ h_main_up =>
           h_cursor' = IF h_cursor = 0 THEN Len(habits) - 1 ELSE h_cursor - 1 ]_vars
  /\ [][ h_remind_nav_down =>
           remind_cursor' = IF remind_cursor = Len(sched) - 1 THEN 0
                            ELSE remind_cursor + 1 ]_vars
  /\ [][ h_remind_nav_up =>
           remind_cursor' = IF remind_cursor = 0 THEN Len(sched) - 1
                            ELSE remind_cursor - 1 ]_vars
  /\ [](cal_cursor + 1 \in 1..monthrange(cal_year, cal_month))
  /\ [](cal_day_date # NoDate /\ cal_date_str = SelectedDate
          /\ journal_date = SelectedDate)

\* the second of two habits has been deleted and the reminder cursor is on
\* the second of two reminders, the calendar cursor on the last day of the
\* month after the start month
C26_Witness ==
  /\ InMode(0, "remind") /\ Len(sched) = 2 /\ remind_cursor = 1
  /\ status[1] = "Deleted:  " /\ Len(habits) = 1 /\ h_cursor = 0
  /\ cal_month = 1 /\ cal_cursor = 30

\* C27: the event cursor is 0 in every state; the delete key removes the
\* first event of the selected date in the stored order and reports its
\* title; a date's list never loses an event other than its first.
C27_EventCursorIsAlwaysZero ==
  /\ [](ev_cursor = 0)
  /\ [][ (delete_event /\ SelectedEvents # <<>>) =>
           /\ Get(events', cal_date_str, <<>>) = Tail(SelectedEvents)
           /\ status' = <<"Deleted:  ", Head(SelectedEvents).title>> ]_vars
  /\ [][ \A ds \in DOMAIN events :
            Len(Get(events', ds, <<>>)) < Len(events[ds]) =>
               Get(events', ds, <<>>) = Tail(events[ds]) ]_vars

\* of two events with different times the first has been deleted: the one
\* that was second is left, and the cursor is 0
C27_Witness ==
  /\ Idle /\ status[1] = "Deleted:  " /\ ev_cursor = 0
  /\ Len(SelectedEvents) = 1 /\ SelectedEvents[1].time = <<57, 58, 48>>

\* C28: a habit that is deleted and later added again under the same name
\* has, right after the add, the marks it had right before the delete, for
\* today and for every other date: the delete and the add leave the log as
\* it is, the add appends the trimmed name, and the mark of a name on a date
\* changes only in a step that has the name in the habit list before and
\* after it.
C28_ReAddedHabitKeepsItsMarks ==
  /\ [][ h_del_confirm_yes => log' = log ]_vars
  /\ [][ finish_add =>
           /\ log' = log
           /\ habits' # habits => habits' = habits \o <<strip(input_buf)>> ]_vars
  /\ [][ \A n \in KnownNames \cup KnownNames', d \in DOMAIN log \cup DOMAIN log' :
            marked_done(log', d, n) # marked_done(log, d, n) =>
               (InSeq(n, habits) /\ InSeq(n, habits')) ]_vars

\* a habit has just been added that the log marks done on an earlier date
\* and on no later one: it was in the list that day, and deleted since
C28_Witness ==
  /\ status[1] = "Added:  " /\ habits # <<>>
  /\ status[2] = habits[Len(habits)] /\ h_cursor = Len(habits) - 1
  /\ \E d \in DOMAIN log : d # today_str /\ marked_done(log, d, status[2])
  /\ ~marked_done(log, today_str, status[2])

====
